---- MODULE Spec2Model ----
(***************************************************************************)
(* Model of classification/api/api_apply_classifier_single_node.py:        *)
(* add_classification_categories, classify_boxes (selection gate, crop     *)
(* geometry, top-K merge, per-image load failure handling) and             *)
(* load_and_run_classifier.                                                *)
(*                                                                         *)
(* Five specifications share the module:                                   *)
(*   Spec      load_and_run_classifier on well-formed input and a second   *)
(*             classify_boxes call on its result                           *)
(*   SpecFatal load_and_run_classifier on any input, every error included  *)
(*   SpecCrop  the crop geometry of classify_boxes on bounded inputs       *)
(*   SpecTopK  the top-K merge of classify_boxes on bounded inputs         *)
(*   SpecVocab repeated calls of add_classification_categories             *)
(*                                                                         *)
(* Numbers.  Normalised box coordinates are multiples of 1/GridDen, the    *)
(* padding factor is a fraction <<num, den>>, and pixel coordinates before *)
(* truncation are exact rationals held as integers in sub-pixel units of   *)
(* 1/Unit(pad) pixel, so that .astype(int) is an integer division that     *)
(* really loses the fraction.  Confidences are hundredths.  Classifier     *)
(* scores are small naturals standing for floats (no NaN).                 *)
(***************************************************************************)
EXTENDS Integers, Sequences, FiniteSets, TLC

VARIABLES
    \* ---- crop geometry (SpecCrop)
    gbox,          \* cur_detection['bbox'] as [x, y, w, h] in 1/GridDen
    gimg,          \* <<image_height, image_width>>
    gpad,          \* padding_factor as <<num, den>>
    gcrop,         \* crop_box = <<y0, x0, y1, x1>>, <<>> before it is computed
    \* ---- top-K merge (SpecTopK)
    tpred,         \* predictions (sequence of scores, position i+1 = class i)
    tk,            \* num_annotated_classes
    tcls,          \* Key(the classifications list written), Absent before
    \* ---- add_classification_categories (SpecVocab)
    vjson,         \* json_object: [cats |-> Absent or mapping, rest |-> other keys]
    vfirst,        \* ghost: the mapping written by the first call that found it absent
    vreads,        \* ghost: number of times the classes file was opened
    vcalls,        \* ghost: number of calls made
    vlast,         \* ghost: [present, before, reads] of the latest call
    \* ---- batch run (Spec)
    pc,            \* position in load_and_run_classifier / classify_boxes
    images,        \* json_with_classes['images']
    cats,          \* json_with_classes['classification_categories'] or Absent
    kcfg,          \* num_annotated_classes of the run
    iImage,        \* loop index of the image loop (0-based)
    iBox,          \* loop index of the box loop (0-based)
    path_bound,    \* whether the local image_path has been assigned
    run,           \* 1 = first classify_boxes call, 2 = the call on its output
    input,         \* ghost: images as deserialised
    after1,        \* ghost: Key(images) when the first classify_boxes call returned
    invoked,       \* ghost: <<run, image, box>> of every classifier invocation
    written,       \* ghost: number of times the output file was written
    failed         \* ghost: the kind of error that escaped, "none" so far

geoVars   == <<gbox, gimg, gpad, gcrop>>
topkVars  == <<tpred, tk, tcls>>
vocVars   == <<vjson, vfirst, vreads, vcalls, vlast>>
batchVars == <<pc, images, cats, kcfg, iImage, iBox, path_bound, run, input,
               after1, invoked, written, failed>>
vars      == <<geoVars, topkVars, vocVars, batchVars>>

\* A dict entry: Absent when the key is not in the dict, Key(v) when it holds v
Absent == [has |-> FALSE]
Key(v) == [has |-> TRUE, val |-> v]

----
\* Bounds of the model

GridDen    == 4     \* normalised coordinates are k/GridDen
MaxSide    == 3     \* image sides of SpecCrop range over 1..MaxSide
MaxClasses == 3     \* classifier outputs of SpecTopK
MaxScore   == 2     \* scores of SpecTopK range over 0..MaxScore
MaxK       == 4     \* num_annotated_classes of SpecTopK ranges over -1..MaxK
MaxLines   == 3     \* lines of the classes file
MaxCalls   == 3     \* calls of add_classification_categories
MaxImages  == 2     \* images of a batch
MaxDets    == 2     \* detections of an image
ImgH       == 4     \* height of every image file of the batch
ImgW       == 6     \* width of every image file of the batch

\* Program constants
DEFAULT_CONFIDENCE_THRESHOLD == 85      \* 0.85 in hundredths
NUM_ANNOTATED_CLASSES        == 3
PADDING_FACTOR               == <<8, 5>>   \* 1.6
DETECTION_CATEGORY_WHITELIST == {"1"}

----
\* Helpers

Max(a, b) == IF a >= b THEN a ELSE b
Min(a, b) == IF a <= b THEN a ELSE b

Digits == <<"0", "1", "2", "3", "4", "5", "6", "7", "8", "9">>

RECURSIVE FmtNat(_)
FmtNat(n) == IF n < 10 THEN Digits[n + 1]
             ELSE FmtNat(n \div 10) \o Digits[(n % 10) + 1]

\* '%i' % idx
FmtInt(i) == IF i < 0 THEN "-" \o FmtNat(-i) ELSE FmtNat(i)

----
\* Crop geometry, classify_boxes lines 171-189

\* sub-pixel units per pixel
Unit(pad) == 2 * GridDen * pad[2]

\* [ymin, xmin, ymax, xmax], normalised (1/GridDen)
box_coords(box) == <<box.y, box.x, box.y + box.h, box.x + box.w>>

\* pixel coordinates, in 1/Unit(pad) pixel
box_coords_abs(box, H, W, pad) ==
    LET c == box_coords(box)
        s == 2 * pad[2]
    IN  <<c[1] * H * s, c[2] * W * s, c[3] * H * s, c[4] * W * s>>

\* <<height, width>> of the box
bbox_sizes(abs) == <<abs[3] - abs[1], abs[4] - abs[2]>>

\* a broken variant: the factor is added to the longer side
offsets_added(sizes, pad) ==
    LET m    == Max(sizes[1], sizes[2])
        side == (pad[1] * 2 * GridDen) + m
    IN  <<(side - sizes[1]) \div 2, (side - sizes[2]) \div 2>>

\* a broken variant: the shorter side is taken as the target
offsets_min(sizes, pad) ==
    LET m    == Min(sizes[1], sizes[2])
        side == (pad[1] * m) \div pad[2]
    IN  <<(side - sizes[1]) \div 2, (side - sizes[2]) \div 2>>

\* (padding_factor * max(sizes) - sizes) / 2; every division is exact
offsets(sizes, pad) ==
    LET m    == Max(sizes[1], sizes[2])
        side == (pad[1] * m) \div pad[2]
    IN  <<(side - sizes[1]) \div 2, (side - sizes[2]) \div 2>>

\* box_coords_abs + hstack([-offsets, offsets])
padded_box(abs, off) ==
    <<abs[1] - off[1], abs[2] - off[2], abs[3] + off[1], abs[4] + off[2]>>

\* np.maximum(0, crop_boxes).astype(int)[0]
crop_box(box, H, W, pad) ==
    LET abs == box_coords_abs(box, H, W, pad)
        p   == padded_box(abs, offsets(bbox_sizes(abs), pad))
    IN  [i \in 1..4 |-> Max(0, p[i]) \div Unit(pad)]

----
\* Top-K merge, classify_boxes lines 196-200

\* insertion of index i behind every index whose key -p is not larger
RECURSIVE InsertByKey(_, _, _)
InsertByKey(s, i, p) ==
    IF s = <<>> THEN <<i>>
    ELSE IF -p[Head(s) + 1] <= -p[i + 1]
         THEN <<Head(s)>> \o InsertByKey(Tail(s), i, p)
         ELSE <<i>> \o s

RECURSIVE SortPrefix(_, _)
SortPrefix(p, n) ==
    IF n = 0 THEN <<>> ELSE InsertByKey(SortPrefix(p, n - 1), n - 1, p)

\* a broken variant: ascending scores (the minus sign forgotten)
RECURSIVE argsort_pos(_)
argsort_pos(p) ==
    IF p = <<>> THEN <<>>
    ELSE LET n    == Len(p)
             rest == argsort_pos(SubSeq(p, 1, n - 1))
             lo   == SelectSeq(rest, LAMBDA j : p[j + 1] <= p[n])
             hi   == SelectSeq(rest, LAMBDA j : p[j + 1] > p[n])
         IN  lo \o <<n - 1>> \o hi

\* np.argsort(-predictions): 0-based indices by descending score; numpy sorts
\* arrays of fewer than 17 elements by insertion, which keeps ties in index order
argsort_neg(p) == SortPrefix(p, Len(p))

\* s[:k] of Python
slice_to(s, k) ==
    IF k >= 0 THEN SubSeq(s, 1, Min(k, Len(s)))
    ELSE SubSeq(s, 1, Max(0, Len(s) + k))

\* the list appended to cur_detection['classifications']
top_classifications(p, k) ==
    LET top == slice_to(argsort_neg(p), k)
    IN  [j \in 1..Len(top) |-> <<FmtInt(top[j]), p[top[j] + 1]>>]

----
\* add_classification_categories, lines 59-92

\* cn.strip() is empty
IsBlank(line) == line \in {"", " "}

\* fi.read().splitlines() without the blank lines
class_names(lines) == SelectSeq(lines, LAMBDA cn : ~IsBlank(cn))

\* the dict {'%i' % idx: name for idx, name in enumerate(class_names)}
categories_of(names) ==
    [k \in {FmtInt(i) : i \in 0..(Len(names) - 1)} |->
        names[(CHOOSE i \in 0..(Len(names) - 1) : FmtInt(i) = k) + 1]]

\* a broken variant: an empty mapping counts as no mapping
has_categories_truthy(json) == json.cats.has /\ DOMAIN json.cats.val # {}

\* 'classification_categories' in json_object.keys()
has_categories(json) == json.cats.has

\* the json_object after the call; file is Absent when open() raises
\* (the exception leaves json_object as it was)
add_classification_categories(json, file) ==
    IF ~has_categories(json)
    THEN IF file.has
         THEN [json EXCEPT !.cats = Key(categories_of(class_names(file.val)))]
         ELSE json
    ELSE json

----
\* classify_boxes: the selection gate (lines 159-169), the classifier call
\* (line 194) and the merge (lines 196-200)

\* a broken variant: a detection at the threshold is skipped
low_conf_inclusive(det, confidence_threshold) == det.conf.val <= confidence_threshold

\* cur_detection['conf'] < confidence_threshold
low_conf(det, confidence_threshold) == det.conf.val < confidence_threshold

\* not cur_detection['category'] in detection_category_whitelist
not_whitelisted(det, whitelist) == det.category.val \notin whitelist

\* a broken variant: nothing counts as classified
already_classified_never(det) == FALSE

\* 'classifications' in cur_detection.keys() and len(cur_detection['classifications']) > 0
already_classified(det) ==
    det.classifications.has /\ Len(det.classifications.val) > 0

\* sess.run(predictions_tensor, ...): the external model, a fixed function of
\* the crop it is fed (three output classes)
Predict(crop) ==
    <<(crop[3] - crop[1]) % 3, (crop[4] - crop[2]) % 3, (crop[1] + crop[2]) % 3>>

\* the detection after lines 172-200
classified(det, k) ==
    [det EXCEPT !.classifications =
        Key(top_classifications(
                Predict(crop_box(det.bbox.val, ImgH, ImgW, PADDING_FACTOR)), k))]

----
\* Idle values of the parts a specification does not use

GeoIdle ==
    /\ gbox = [x |-> 0, y |-> 0, w |-> 0, h |-> 0]
    /\ gimg = <<1, 1>>
    /\ gpad = <<1, 1>>
    /\ gcrop = <<>>

TopKIdle == tpred = <<>> /\ tk = 0 /\ tcls = Absent

VocIdle ==
    /\ vjson = [cats |-> Absent, rest |-> "r0"]
    /\ vfirst = Absent
    /\ vreads = 0
    /\ vcalls = 0
    /\ vlast = [present |-> FALSE, before |-> [cats |-> Absent, rest |-> "r0"],
                reads |-> 0, file |-> Absent]

BatchIdle ==
    /\ pc = "idle"
    /\ images = <<>>
    /\ cats = Absent
    /\ kcfg = 0
    /\ iImage = 0
    /\ iBox = 0
    /\ path_bound = FALSE
    /\ run = 1
    /\ input = <<>>
    /\ after1 = Absent
    /\ invoked = {}
    /\ written = 0
    /\ failed = "none"

----
\* Spec and SpecFatal: the batch runs

box_a == [x |-> 1, y |-> 1, w |-> 2, h |-> 1]
box_b == [x |-> 0, y |-> 0, w |-> GridDen, h |-> GridDen]

Det(conf, category, bbox, classifications) ==
    [conf |-> conf, category |-> category, bbox |-> bbox,
     classifications |-> classifications]

det_eligible     == Det(Key(90), Key("1"), Key(box_a), Absent)
det_at_threshold == Det(Key(DEFAULT_CONFIDENCE_THRESHOLD), Key("1"), Key(box_b), Key(<<>>))
det_low_conf     == Det(Key(80), Key("1"), Key(box_a), Absent)
det_other_cat    == Det(Key(90), Key("2"), Key(box_a), Absent)
det_classified   == Det(Key(90), Key("1"), Key(box_a), Key(<<<<"7", 9>>>>))
det_no_bbox      == Det(Key(90), Key("1"), Absent, Absent)
det_no_conf      == Det(Absent, Key("1"), Key(box_a), Absent)
det_low_no_keys  == Det(Key(80), Absent, Absent, Absent)

\* well-formed detections: eligible, eligible at the threshold with an empty
\* list, low confidence, not whitelisted, already classified
GoodDets ==
    {det_eligible, det_at_threshold, det_low_conf, det_other_cat, det_classified}

\* detections of the runs that may abort: two well-formed ones and three that
\* lack 'bbox', 'conf', or 'category' and 'bbox' behind a low confidence
AnyDets ==
    {det_eligible, det_low_conf, det_no_bbox, det_no_conf, det_low_no_keys}

\* well-formed image records with k detections; 'file' names a file that
\* loads ("ok") or one that does not ("bad")
GoodImages(k) ==
    {[file |-> Key(f), detections |-> Key(ds)] :
        f \in {"ok", "bad"}, ds \in [1..k -> GoodDets]}

\* image records with k detections, 'detections' or 'file' possibly missing
AnyImages(k) ==
    {[file |-> Key(f), detections |-> Key(ds)] :
        f \in {"ok", "bad"}, ds \in [1..k -> AnyDets]}
    \cup (IF k = 0
          THEN {[file |-> Key(f), detections |-> Absent] : f \in {"ok", "bad"}}
          ELSE {})
    \cup (IF k = 1
          THEN {[file |-> Absent, detections |-> Key(<<det_eligible>>)]}
          ELSE {})

\* the batches of n images holding at most budget detections in all,
\* well-formed or (any = TRUE) not
RECURSIVE BatchesOf(_, _, _)
BatchesOf(any, n, budget) ==
    IF n = 0 THEN {<<>>}
    ELSE UNION {{<<img>> \o rest :
                    img \in (IF any THEN AnyImages(k) ELSE GoodImages(k)),
                    rest \in BatchesOf(any, n - 1, budget - k)} :
                k \in 0..budget}

GoodBatches == UNION {BatchesOf(FALSE, n, MaxDets) : n \in 0..MaxImages}
AnyBatches  == UNION {BatchesOf(TRUE, n, MaxDets) : n \in 0..MaxImages}

Init ==
    /\ pc = "start"
    /\ images = <<>>
    /\ cats = Absent
    /\ kcfg \in {0, NUM_ANNOTATED_CLASSES}
    /\ iImage = 0
    /\ iBox = 0
    /\ path_bound = FALSE
    /\ run = 1
    /\ input = <<>>
    /\ after1 = Absent
    /\ invoked = {}
    /\ written = 0
    /\ failed = "none"
    /\ GeoIdle /\ TopKIdle /\ VocIdle

InitFatal == Init /\ kcfg = NUM_ANNOTATED_CLASSES

nImages      == Len(images)
curImage     == images[iImage + 1]
nDetections  == Len(curImage.detections.val)
curDet       == curImage.detections.val[iBox + 1]

\* what lines 157-172 do with a detection
gate_outcome(det) ==
    IF ~det.conf.has THEN "keyerror"
    ELSE IF low_conf(det, DEFAULT_CONFIDENCE_THRESHOLD) THEN "skip"
    ELSE IF ~det.category.has THEN "keyerror"
    ELSE IF not_whitelisted(det, DETECTION_CATEGORY_WHITELIST) THEN "skip"
    ELSE IF already_classified(det) THEN "skip"
    ELSE IF ~det.bbox.has THEN "keyerror"
    ELSE "classify"

Abort(kind) ==
    /\ pc' = "error"
    /\ failed' = kind

\* ---- load_and_run_classifier, lines 213-240

LoadModel ==
    /\ pc = "start"
    /\ pc' = "load_json"
    /\ UNCHANGED <<images, cats, kcfg, iImage, iBox, path_bound, run, input,
                   after1, invoked, written, failed, geoVars, topkVars, vocVars>>

LoadModelFails ==
    /\ pc = "start"
    /\ Abort("model")
    /\ UNCHANGED <<images, cats, kcfg, iImage, iBox, path_bound, run, input,
                   after1, invoked, written, geoVars, topkVars, vocVars>>

\* lines 223-224: json.load yields a well-formed structure, with or without
\* the key classification_categories
LoadJson ==
    /\ pc = "load_json"
    /\ \E batch \in GoodBatches, c \in {Absent, Key(categories_of(<<"owl">>))} :
          /\ images' = batch
          /\ input' = batch
          /\ cats' = c
    /\ pc' = "add_categories"
    /\ UNCHANGED <<kcfg, iImage, iBox, path_bound, run, after1, invoked,
                   written, failed, geoVars, topkVars, vocVars>>

\* lines 223-224: json.load yields any structure, required keys possibly missing
LoadJsonAny ==
    /\ pc = "load_json"
    /\ \E batch \in AnyBatches, c \in {Absent, Key(categories_of(<<"owl">>))} :
          /\ images' = batch
          /\ input' = batch
          /\ cats' = c
    /\ pc' = "add_categories"
    /\ UNCHANGED <<kcfg, iImage, iBox, path_bound, run, after1, invoked,
                   written, failed, geoVars, topkVars, vocVars>>

\* the file is not there or is not JSON
LoadJsonFails ==
    /\ pc = "load_json"
    /\ Abort("json")
    /\ UNCHANGED <<images, cats, kcfg, iImage, iBox, path_bound, run, input,
                   after1, invoked, written, geoVars, topkVars, vocVars>>

AddCategoriesStep ==
    /\ pc = "add_categories"
    /\ \E file \in {Absent, Key(<<"cat", "", "dog">>)} :
       IF ~has_categories([cats |-> cats]) /\ ~file.has
       THEN Abort("classes") /\ UNCHANGED cats
       ELSE /\ cats' = add_classification_categories([cats |-> cats], file).cats
            /\ pc' = "classify"
            /\ UNCHANGED failed
    /\ UNCHANGED <<images, kcfg, iImage, iBox, path_bound, run, input,
                   after1, invoked, written, geoVars, topkVars, vocVars>>

WriteOutput ==
    /\ pc = "return"
    /\ written' = written + 1
    /\ pc' = "done"
    /\ UNCHANGED <<images, cats, kcfg, iImage, iBox, path_bound, run, input,
                   after1, invoked, failed, geoVars, topkVars, vocVars>>

\* ---- classify_boxes, lines 95-210

\* the asserts of lines 119-121 hold; the image loop starts
EnterClassify ==
    /\ pc = "classify"
    /\ cats.has
    /\ pc' = "image"
    /\ iImage' = 0
    /\ iBox' = 0
    /\ path_bound' = FALSE
    /\ UNCHANGED <<images, cats, kcfg, run, input, after1, invoked, written,
                   failed, geoVars, topkVars, vocVars>>

\* a broken variant: the image loop ends at the first image that fails to load
LoadImageFailBreaks ==
    /\ pc = "image" /\ iImage < nImages
    /\ curImage.file = Key("bad")
    /\ path_bound' = TRUE
    /\ iImage' = nImages
    /\ UNCHANGED <<pc, images, cats, kcfg, iBox, run, input, after1, invoked,
                   written, failed, geoVars, topkVars, vocVars>>

\* lines 139-151: the image does not load; print and continue
LoadImageFail ==
    /\ pc = "image" /\ iImage < nImages
    /\ curImage.file = Key("bad")
    /\ path_bound' = TRUE
    /\ iImage' = iImage + 1
    /\ UNCHANGED <<pc, images, cats, kcfg, iBox, run, input, after1, invoked,
                   written, failed, geoVars, topkVars, vocVars>>

\* a broken variant: image_path is initialised before the loop
ImageNoFileSkips ==
    /\ pc = "image" /\ iImage < nImages
    /\ ~curImage.file.has
    /\ iImage' = iImage + 1
    /\ UNCHANGED <<pc, failed, images, cats, kcfg, iBox, path_bound, run, input,
                   after1, invoked, written, geoVars, topkVars, vocVars>>

\* lines 140, 149-151: image_description['file'] raises KeyError inside the
\* try; the handler formats image_path, which is unbound in the first
\* iteration that reaches it (the NameError escapes) and stale afterwards
ImageNoFile ==
    /\ pc = "image" /\ iImage < nImages
    /\ ~curImage.file.has
    /\ IF path_bound
       THEN iImage' = iImage + 1 /\ UNCHANGED <<pc, failed>>
       ELSE Abort("malformed") /\ UNCHANGED iImage
    /\ UNCHANGED <<images, cats, kcfg, iBox, path_bound, run, input,
                   after1, invoked, written, geoVars, topkVars, vocVars>>

\* lines 139-146, 154: the image loads; len(image_description['detections'])
LoadImageOk ==
    /\ pc = "image" /\ iImage < nImages
    /\ curImage.file = Key("ok")
    /\ path_bound' = TRUE
    /\ IF curImage.detections.has
       THEN pc' = "box" /\ iBox' = 0 /\ UNCHANGED failed
       ELSE Abort("malformed") /\ UNCHANGED iBox
    /\ UNCHANGED <<images, cats, kcfg, iImage, run, input, after1, invoked,
                   written, geoVars, topkVars, vocVars>>

\* line 210: the loop is over, classify_boxes returns
ImagesDone ==
    /\ pc = "image" /\ iImage = nImages
    /\ IF run = 1
       THEN pc' = "return" /\ after1' = Key(images)
       ELSE pc' = "done2" /\ UNCHANGED after1
    /\ UNCHANGED <<images, cats, kcfg, iImage, iBox, path_bound, run, input,
                   invoked, written, failed, geoVars, topkVars, vocVars>>

\* lines 160-169: one of the three continue statements
SkipBox ==
    /\ pc = "box" /\ iBox < nDetections
    /\ gate_outcome(curDet) = "skip"
    /\ iBox' = iBox + 1
    /\ UNCHANGED <<pc, images, cats, kcfg, iImage, path_bound, run, input,
                   after1, invoked, written, failed, geoVars, topkVars, vocVars>>

\* lines 160, 164, 172: a required key of the detection is not there
BoxKeyError ==
    /\ pc = "box" /\ iBox < nDetections
    /\ gate_outcome(curDet) = "keyerror"
    /\ Abort("malformed")
    /\ UNCHANGED <<images, cats, kcfg, iImage, iBox, path_bound, run, input,
                   after1, invoked, written, geoVars, topkVars, vocVars>>

\* lines 172-200: crop, run the classifier, write the top classes
ClassifyBox ==
    /\ pc = "box" /\ iBox < nDetections
    /\ gate_outcome(curDet) = "classify"
    /\ invoked' = invoked \cup {<<run, iImage, iBox>>}
    /\ images' = [images EXCEPT
                    ![iImage + 1].detections.val[iBox + 1] = classified(curDet, kcfg)]
    /\ iBox' = iBox + 1
    /\ UNCHANGED <<pc, cats, kcfg, iImage, path_bound, run, input, after1,
                   written, failed, geoVars, topkVars, vocVars>>

\* a broken variant: the exception of the classifier is swallowed
ClassifierRaisesSwallowed ==
    /\ pc = "box" /\ iBox < nDetections
    /\ gate_outcome(curDet) = "classify"
    /\ invoked' = invoked \cup {<<run, iImage, iBox>>}
    /\ failed' = "classifier"
    /\ iBox' = iBox + 1
    /\ UNCHANGED <<pc, images, cats, kcfg, iImage, path_bound, run, input,
                   after1, written, geoVars, topkVars, vocVars>>

\* line 194: sess.run raises; nothing catches it
ClassifierRaises ==
    /\ pc = "box" /\ iBox < nDetections
    /\ gate_outcome(curDet) = "classify"
    /\ invoked' = invoked \cup {<<run, iImage, iBox>>}
    /\ Abort("classifier")
    /\ UNCHANGED <<images, cats, kcfg, iImage, iBox, path_bound, run, input,
                   after1, written, geoVars, topkVars, vocVars>>

\* the box loop of the image is over
BoxesDone ==
    /\ pc = "box" /\ iBox = nDetections
    /\ pc' = "image"
    /\ iImage' = iImage + 1
    /\ UNCHANGED <<images, cats, kcfg, iBox, path_bound, run, input, after1,
                   invoked, written, failed, geoVars, topkVars, vocVars>>

\* the caller passes the returned structure to classify_boxes once more
\* (same graph, same settings, same files)
Rerun ==
    /\ pc = "done" /\ run = 1
    /\ run' = 2
    /\ pc' = "classify"
    /\ UNCHANGED <<images, cats, kcfg, iImage, iBox, path_bound, input, after1,
                   invoked, written, failed, geoVars, topkVars, vocVars>>

\* the runs on well-formed input, and the second classify_boxes call
Next ==
    \/ LoadModel
    \/ LoadJson
    \/ AddCategoriesStep
    \/ EnterClassify
    \/ LoadImageFail
    \/ LoadImageOk
    \/ ImagesDone
    \/ SkipBox
    \/ ClassifyBox
    \/ ClassifierRaises
    \/ BoxesDone
    \/ WriteOutput
    \/ Rerun

\* the runs of load_and_run_classifier on any input, every failure included
NextFatal ==
    \/ LoadModel
    \/ LoadModelFails
    \/ LoadJsonAny
    \/ LoadJsonFails
    \/ AddCategoriesStep
    \/ EnterClassify
    \/ LoadImageFail
    \/ ImageNoFile
    \/ LoadImageOk
    \/ ImagesDone
    \/ SkipBox
    \/ BoxKeyError
    \/ ClassifyBox
    \/ ClassifierRaises
    \/ BoxesDone
    \/ WriteOutput

Spec == Init /\ [][Next]_vars

SpecFatal == InitFatal /\ [][NextFatal]_vars

\* ---- what the claims about the batch speak of

\* the selection condition as the specification words it
Gate(det) ==
    /\ det.conf.val >= DEFAULT_CONFIDENCE_THRESHOLD
    /\ det.category.val \in DETECTION_CATEGORY_WHITELIST
    /\ (~det.classifications.has \/ det.classifications.val = <<>>)

\* the list a classified detection carries
Merged(det) ==
    Key(top_classifications(
            Predict(crop_box(det.bbox.val, ImgH, ImgW, PADDING_FACTOR)), kcfg))

DetsOf(imgs, i) == imgs[i].detections.val

\* C1: during a second classify_boxes call on the result of the first (same
\* settings, same files) the structure stays identical to that result, and
\* the classifier is never invoked on a detection whose list is non-empty.
Idempotent ==
    /\ [](run = 2 => images = after1.val)
    /\ [][\A e \in invoked' \ invoked :
              e[1] = 2 =>
                  LET c == DetsOf(images, e[2] + 1)[e[3] + 1].classifications
                  IN  ~c.has \/ c.val = <<>>]_vars

\* a second call has returned after a first call that classified something,
\* without invoking the classifier again
IdempotentWitness ==
    /\ pc = "done2" /\ kcfg = NUM_ANNOTATED_CLASSES
    /\ images # input
    /\ invoked # {} /\ \A e \in invoked : e[1] = 1

\* C2: a load failure leaves the structure as it is and the loop goes on with
\* the next image without raising; when classify_boxes returns, every image
\* that failed to load is as in the input and every eligible detection of
\* every other image carries its classifications.
LoadFailureIsolated ==
    /\ [][(pc = "image" /\ iImage < nImages /\ curImage.file = Key("bad")) =>
              /\ images' = images
              /\ pc' = "image" /\ iImage' = iImage + 1
              /\ failed' = "none"]_vars
    /\ [](after1.has =>
            \A i \in 1..Len(input) :
                IF input[i].file = Key("bad")
                THEN after1.val[i] = input[i]
                ELSE \A j \in 1..Len(DetsOf(input, i)) :
                        Gate(DetsOf(input, i)[j]) =>
                            DetsOf(after1.val, i)[j].classifications
                                = Merged(DetsOf(input, i)[j]))

\* a batch whose first image failed to load and whose second was classified
LoadFailureWitness ==
    /\ after1.has /\ Len(input) = 2
    /\ input[1] = [file |-> Key("bad"), detections |-> Key(<<det_eligible>>)]
    /\ input[2] = [file |-> Key("ok"), detections |-> Key(<<det_eligible>>)]
    /\ after1.val[1] = input[1]
    /\ Len(DetsOf(after1.val, 2)[1].classifications.val) = NUM_ANNOTATED_CLASSES

NoOutputOnError ==
    /\ [](/\ written <= 1
          /\ written = 1 => (after1.has /\ failed = "none")
          /\ failed # "none" => (written = 0 /\ pc = "error"))
    /\ [][written' # written =>
              (pc = "return" /\ iImage = nImages /\ written' = 1)]_vars

\* the classifier raised after an earlier detection had been classified in
\* memory, and nothing was written
NoOutputWitness ==
    /\ pc = "error" /\ failed = "classifier"
    /\ images # input /\ written = 0

\* some required key is missing somewhere in the structure
HasMissingField(imgs) ==
    \E i \in 1..Len(imgs) :
        \/ ~imgs[i].file.has
        \/ ~imgs[i].detections.has
        \/ \E j \in 1..Len(DetsOf(imgs, i)) :
              LET d == DetsOf(imgs, i)[j]
              IN  ~d.conf.has \/ ~d.category.has \/ ~d.bbox.has

\* the detection lacks a key that its own other fields let the code read
DetReadsMissing(d) ==
    \/ ~d.conf.has
    \/ /\ d.conf.val >= DEFAULT_CONFIDENCE_THRESHOLD
       /\ \/ ~d.category.has
          \/ /\ d.category.val \in DETECTION_CATEGORY_WHITELIST
             /\ ~(d.classifications.has /\ d.classifications.val # <<>>)
             /\ ~d.bbox.has

\* the structure lacks a key that the code reads: 'detections' or a
\* detection's key in an image that loads, or 'file' before any image had one
ReadsMissingField(imgs) ==
    \E i \in 1..Len(imgs) :
        \/ /\ imgs[i].file = Key("ok")
           /\ \/ ~imgs[i].detections.has
              \/ \E j \in 1..Len(DetsOf(imgs, i)) : DetReadsMissing(DetsOf(imgs, i)[j])
        \/ /\ ~imgs[i].file.has
           /\ \A i2 \in 1..(i - 1) : ~imgs[i2].file.has

\* C9 as stated: with a required key missing anywhere in the input, the run
\* aborts before the classifier is invoked and before any detection is changed.
MalformedAbortsBeforeProcessing ==
    HasMissingField(input) =>
        (invoked = {} /\ images = input /\ pc \notin {"return", "done"})

\* C9 amended: a run completes only if no missing key is read; a run that
\* aborts on a missing key does so where the key is read: the classifier was
\* not invoked on that detection, that entry and every later one are as in
\* the input, and nothing is written (earlier detections may be classified).
MalformedAbortsWhenRead ==
    /\ pc \in {"return", "done"} => ~ReadsMissingField(input)
    /\ (pc = "error" /\ failed = "malformed") =>
          /\ ReadsMissingField(input)
          /\ written = 0
          /\ <<run, iImage, iBox>> \notin invoked
          /\ \A i \in (iImage + 1)..Len(images) :
                \/ images[i] = input[i]
                \/ /\ i = iImage + 1
                   /\ \A j \in (iBox + 1)..Len(DetsOf(images, i)) :
                         DetsOf(images, i)[j] = DetsOf(input, i)[j]

\* the run aborted on a missing key in the second image after a detection of
\* the first had been classified
MalformedWitness ==
    /\ pc = "error" /\ failed = "malformed"
    /\ iImage = 1 /\ invoked = {<<1, 0, 0>>}
    /\ images # input


----
\* SpecCrop: the crop geometry on every bounded box, image size and factor

Boxes ==
    {b \in [x : 0..GridDen, y : 0..GridDen, w : 0..GridDen, h : 0..GridDen] :
        b.x + b.w <= GridDen /\ b.y + b.h <= GridDen}

Pads == {<<1, 2>>, <<1, 1>>, PADDING_FACTOR, <<2, 1>>}

InitCrop ==
    /\ gbox \in Boxes
    /\ gimg \in (1..MaxSide) \X (1..MaxSide)
    /\ gpad \in Pads
    /\ gcrop = <<>>
    /\ TopKIdle /\ VocIdle /\ BatchIdle

ComputeCrop ==
    /\ gcrop = <<>>
    /\ gcrop' = crop_box(gbox, gimg[1], gimg[2], gpad)
    /\ UNCHANGED <<gbox, gimg, gpad, topkVars, vocVars, batchVars>>

NextCrop == ComputeCrop

SpecCrop == InitCrop /\ [][NextCrop]_vars

\* what the claims about the crop speak of
gU      == Unit(gpad)
gAbs    == box_coords_abs(gbox, gimg[1], gimg[2], gpad)
gSizes  == bbox_sizes(gAbs)
gOff    == offsets(gSizes, gpad)
gSide   == (gpad[1] * Max(gSizes[1], gSizes[2])) \div gpad[2]
gDone   == gcrop # <<>>
\* the unpadded box clamped at 0 and truncated, as the code truncates
gOrigInt == [i \in 1..4 |-> Max(0, gAbs[i]) \div gU]

\* C4: every crop coordinate lies within the image: 0 <= y0, y1 <= image_height
\* and 0 <= x0, x1 <= image_width.
CropWithinImage ==
    gDone => /\ 0 <= gcrop[1] /\ gcrop[1] <= gimg[1]
             /\ 0 <= gcrop[3] /\ gcrop[3] <= gimg[1]
             /\ 0 <= gcrop[2] /\ gcrop[2] <= gimg[2]
             /\ 0 <= gcrop[4] /\ gcrop[4] <= gimg[2]

\* C5 as stated: for padding_factor >= 1 the integer crop contains the
\* unpadded pixel-space box intersected with the image, on both axes.
CropContainsBox ==
    (gDone /\ gpad[1] >= gpad[2]) =>
        /\ gcrop[1] * gU <= Max(0, gAbs[1])
        /\ gcrop[2] * gU <= Max(0, gAbs[2])
        /\ gcrop[3] * gU >= Min(gimg[1] * gU, gAbs[3])
        /\ gcrop[4] * gU >= Min(gimg[2] * gU, gAbs[4])

\* C5 amended: for padding_factor >= 1 the integer crop contains the unpadded
\* box intersected with the image once the far edges of that box are rounded
\* down to whole pixels: y0 <= y_min, x0 <= x_min, y1 >= floor(min(y_max, H)),
\* x1 >= floor(min(x_max, W)).
CropContainsWholePixels ==
    (gDone /\ gpad[1] >= gpad[2]) =>
        /\ gcrop[1] * gU <= Max(0, gAbs[1])
        /\ gcrop[2] * gU <= Max(0, gAbs[2])
        /\ gcrop[3] >= Min(gimg[1] * gU, gAbs[3]) \div gU
        /\ gcrop[4] >= Min(gimg[2] * gU, gAbs[4]) \div gU

\* a crop of a padded box with fractional pixel edges has been computed
CropContainsWitness ==
    /\ gDone /\ gpad = PADDING_FACTOR
    /\ gSizes[1] > 0 /\ gSizes[2] > gSizes[1]
    /\ gAbs[3] % gU # 0 /\ gAbs[4] % gU # 0
    /\ gcrop[3] * gU < gAbs[3] + gOff[1]

\* C10 as stated: a box whose pixel height is 0 or whose pixel width is 0 has
\* target side 0 and its crop is the original box, not expanded on either axis.
DegenerateEitherUnchanged ==
    (gDone /\ (gSizes[1] = 0 \/ gSizes[2] = 0)) =>
        /\ gSide = 0
        /\ gOff = <<0, 0>>
        /\ gcrop = gOrigInt

\* C10 amended: a box whose pixel height and pixel width are both 0 has target
\* side 0, offsets 0, and its crop is the original point box clamped at 0 and
\* truncated to integers (zero area).
DegenerateBothUnchanged ==
    (gDone /\ gSizes[1] = 0 /\ gSizes[2] = 0) =>
        /\ gSide = 0
        /\ gOff = <<0, 0>>
        /\ gcrop = gOrigInt
        /\ gcrop[1] = gcrop[3] /\ gcrop[2] = gcrop[4]

\* the crop of a point box away from the origin, under the default factor
DegenerateWitness ==
    /\ gDone /\ gSizes = <<0, 0>> /\ gpad = PADDING_FACTOR
    /\ gAbs[1] > 0 /\ gAbs[2] > 0 /\ gAbs[1] % gU # 0

----
\* SpecVocab: calls of add_classification_categories on one json_object, the
\* classes file free to differ (or to be unreadable) from call to call

LineSet == {"", " ", "cat", "dog"}

ClassFiles ==
    {Absent} \cup {Key(l) : l \in UNION {[1..n -> LineSet] : n \in 0..MaxLines}}

InitVocab ==
    /\ vjson \in [cats : {Absent, Key(categories_of(<<>>)), Key(categories_of(<<"owl">>))},
                  rest : {"r0", "r1"}]
    /\ vfirst = Absent
    /\ vreads = 0
    /\ vcalls = 0
    /\ vlast = [present |-> FALSE, before |-> [cats |-> Absent, rest |-> "r0"],
                reads |-> 0, file |-> Absent]
    /\ GeoIdle /\ TopKIdle /\ BatchIdle

AddCategories(file) ==
    /\ vcalls < MaxCalls
    /\ vcalls' = vcalls + 1
    /\ vjson' = add_classification_categories(vjson, file)
    /\ vreads' = IF has_categories(vjson) THEN vreads ELSE vreads + 1
    /\ vfirst' = IF ~vjson.cats.has /\ vjson'.cats.has THEN vjson'.cats ELSE vfirst
    /\ vlast' = [present |-> vjson.cats.has, before |-> vjson, reads |-> vreads,
                 file |-> file]
    /\ UNCHANGED <<geoVars, topkVars, batchVars>>

NextVocab == \E file \in ClassFiles : AddCategories(file)

SpecVocab == InitVocab /\ [][NextVocab]_vars

\* C7: a call that finds the key classification_categories present (with any
\* value, the empty mapping included) leaves the whole structure unchanged and
\* does not open the classes file; after any calls the vocabulary is the one
\* written by the first call that found it absent.
VocabNoOp ==
    /\ (vcalls > 0 /\ vlast.present) => (vjson = vlast.before /\ vreads = vlast.reads)
    /\ vfirst.has => vjson.cats = vfirst

\* a later call with a readable classes file naming other classes has been
\* made on a structure whose vocabulary an earlier call wrote
VocabWitness ==
    /\ vcalls >= 2 /\ vlast.present /\ vfirst.has
    /\ vlast.file.has
    /\ class_names(vlast.file.val) # <<>>
    /\ categories_of(class_names(vlast.file.val)) # vfirst.val

----
\* SpecTopK: the top-K merge on every bounded score vector and K

ScoreVectors == UNION {[1..n -> 0..MaxScore] : n \in 0..MaxClasses}

InitTopK ==
    /\ tpred \in ScoreVectors
    /\ tk \in (-1)..MaxK
    /\ tcls = Absent
    /\ GeoIdle /\ VocIdle /\ BatchIdle

MergeTopK ==
    /\ tcls = Absent
    /\ tcls' = Key(top_classifications(tpred, tk))
    /\ UNCHANGED <<tpred, tk, geoVars, vocVars, batchVars>>

NextTopK == MergeTopK

SpecTopK == InitTopK /\ [][NextTopK]_vars

tList == tcls.val
tIds  == {tList[j][1] : j \in 1..Len(tList)}

\* C6: for K >= 0 the written list has length min(K, n), each entry is
\* [string of a 0-based class index i, p[i]], no index is repeated, scores are
\* non-increasing, and no class left out scores strictly more than one included.
TopKContract ==
    (tcls.has /\ tk >= 0) =>
        LET n == Len(tpred) IN
        /\ Len(tList) = Min(tk, n)
        /\ \A j \in 1..Len(tList) :
              \E i \in 0..(n - 1) : tList[j] = <<FmtInt(i), tpred[i + 1]>>
        /\ \A j1, j2 \in 1..Len(tList) : j1 # j2 => tList[j1][1] # tList[j2][1]
        /\ \A j \in 1..(Len(tList) - 1) : tList[j][2] >= tList[j + 1][2]
        /\ \A i \in 0..(n - 1) :
              FmtInt(i) \notin tIds =>
                  \A j \in 1..Len(tList) : tpred[i + 1] <= tList[j][2]

\* a proper truncation of a vector with distinct scores has been merged
TopKWitness ==
    /\ tcls.has /\ tk = 2 /\ Len(tpred) = 3
    /\ tpred[1] < tpred[3] /\ tpred[3] < tpred[2]
    /\ tList = <<<<"1", tpred[2]>>, <<"2", tpred[3]>>>>

====
